---- MODULE Spec2Model ----
(***************************************************************************)
(* The pinba2 coordinator (src/src/coordinator.cpp): one coordinator       *)
(* worker thread that multiplexes a tick channel, the inbound batch socket *)
(* and the control REP socket, and one report host per report, each with   *)
(* its own worker thread multiplexing a tick channel, its packets PULL     *)
(* socket, its callback REP socket and its shutdown REP socket.            *)
(*                                                                         *)
(* Threads are interleaved at the granularity of one poller handler; a     *)
(* handler that blocks on a reply (host shutdown(), call_with_report) is   *)
(* split at the blocking recv / join.                                      *)
(***************************************************************************)
EXTENDS Integers, Sequences, FiniteSets, TLC

\* ---------------------------------------------------------------- bounds
Names      == {"a", "b"}   \* report names a client may use
MaxHosts   == 2            \* report_host___new_thread_t objects ever constructed
MaxControlHosts == 3       \* the same, where the control plane runs alone
MaxBatches == 3            \* batches the upstream pushes
MaxClock   == 1            \* ticks the ticker service delivers in all
Capacity   == 2            \* conf_->nn_report_output_buffer (NN_RCVBUF, in batches)

VARIABLES
    report_hosts_,  \* coordinator_impl_t::report_hosts_ : report name -> host
    added,          \* history: names an ADD_REPORT was handled for and no later
                    \* DELETE_REPORT was answered OK for
    hosts,          \* every host object constructed so far, by construction order
    in_sock_,       \* batches queued on the coordinator's PULL socket
    pushed,         \* batches the upstream has pushed so far
    ctlReq,         \* request queued on control_sock_, not yet received
    cur,            \* request last received by the control handler
    resps,          \* responses sent on the current control exchange
    snapshot,       \* local `snapshot` of the GET_REPORT_SNAPSHOT handler
    pc,             \* position of the coordinator worker thread
    target,         \* host the coordinator is blocked on
    tickerSubs,     \* names of the live ticker subscriptions
    clock,          \* ticks delivered so far
    client,         \* position of the client thread
    aborted         \* std::terminate() has been called

vars == << report_hosts_, added, hosts, in_sock_, pushed, ctlReq, cur, resps, snapshot,
           pc, target, tickerSubs, clock, client, aborted >>

\* ---------------------------------------------------------------- values
NoReq == [type |-> "none", name |-> "", fn |-> ""]

Req(t, n, f) == [type |-> t, name |-> n, fn |-> f]

\* coordinator_response___generic_t
Generic(status, msg) ==
    [kind |-> "generic", status |-> status, msg |-> msg, snapshot |-> << >>]

\* coordinator_response___report_snapshot_t
SnapshotResponse(s) ==
    [kind |-> "snapshot", status |-> "OK", msg |-> <<"", "">>, snapshot |-> s]

OK == Generic("OK", <<"", "">>)

\* the message without the report name
UnknownReport_NoName(n) == Generic("ERROR", <<"unknown report: ", "">>)

\* ff::fmt_str("unknown report: {0}", r->report_name)
UnknownReport(n) == Generic("ERROR", <<"unknown report: ", n>>)

\* batch->packet_count of the i-th batch the upstream pushes: 3, 5, 7, ...
PacketCount(b) == 2 * b + 1

CoordinatorTick == <<-1, "coordinator_thread">>

\* a host name made of the index alone
RhName_IndexOnly(thread_id, report_name) == <<thread_id, "">>

\* ff::fmt_str("rh/{0}/{1}", thread_id, report_name)
RhName(thread_id, report_name) == <<thread_id, report_name>>

Range(f) == {f[x] : x \in DOMAIN f}

HostIds == 1..Len(hosts)

\* the hosts the registry owns
Registered == Range(report_hosts_)

\* host objects that exist (constructed and not destroyed)
Live == {h \in HostIds : ~hosts[h].destroyed}

\* the host's worker thread is executing
ThreadRunning(h) ==
    ~aborted /\ hosts[h].pc \in {"init", "loop", "add_multi", "stopping"}

\* ---------------------------------------------------------------- report host

\* report_host___new_thread_t constructor followed by startup(report), as the
\* ADD_REPORT handler runs them: the handler reads report->name(), startup
\* sets report_ and reads report_->info(), both on the calling (coordinator)
\* thread; then the ticker is subscribed and the worker thread is spawned.
NewHost(rh_name, report_name) ==
    [ name             |-> rh_name,
      report           |-> report_name,
      pc               |-> "init",
      joined           |-> FALSE,
      destroyed        |-> FALSE,
      queue            |-> << >>,
      ingested         |-> << >>,
      packets_received |-> 0,
      req              |-> "none",
      shut             |-> "none",
      ticks_init       |-> 0,
      accesses         |-> {<<"name", "coordinator">>, <<"info", "coordinator">>},
      offered          |-> << >>,
      dropped          |-> << >>,
      cb_failed        |-> FALSE,
      drop_counter     |-> 0 ]

\* ~report_host___new_thread_t: the object is gone; of its members only the
\* identity and the state of t_ at destruction are kept
Destroyed(H) ==
    [NewHost(H.name, H.report) EXCEPT
        !.destroyed = TRUE, !.pc = H.pc, !.joined = H.joined, !.accesses = {}]

\* packets_send_sock_.send_message(batch, NN_DONTWAIT) succeeds iff the
\* receive buffer of packets_recv_sock_ (NN_RCVBUF) has room
SendSucceeds(q) == Len(q) < Capacity

\* process_batch sending the batch a second time after a successful send
process_batch_resend(H, b) ==
    IF SendSucceeds(H.queue)
    THEN [H EXCEPT !.queue = Append(Append(@, b), b), !.offered = Append(@, b)]
    ELSE [H EXCEPT !.offered = Append(@, b),
                   !.dropped = Append(@, [batch |-> b, qlen |-> Len(H.queue)])]

\* report_host___new_thread_t::process_batch; on failure nothing is counted
\* ("TODO: increment stats"), so drop_counter is left alone.  offered and
\* dropped are history: the batches process_batch was called with, and
\* those whose send failed, each with the queue length it met.
process_batch(H, b) ==
    IF SendSucceeds(H.queue)
    THEN [H EXCEPT !.queue = Append(@, b), !.offered = Append(@, b)]
    ELSE [H EXCEPT !.offered = Append(@, b),
                   !.dropped = Append(@, [batch |-> b, qlen |-> Len(H.queue)])]

\* the request half of report_host___new_thread_t::shutdown: sock.send(1)
shutdown_send(H) == [H EXCEPT !.shut = "pending"]

\* call_with_report running the callback on the calling thread
call_with_report_direct(H) ==
    [H EXCEPT !.req = "replied",
              !.accesses = @ \cup {<<"get_snapshot", "coordinator">>}]

\* the request half of call_with_report: sock.send_message(req)
call_with_report_send(H) == [H EXCEPT !.req = "pending"]

\* ---------------------------------------------------------------- init
Init ==
    /\ report_hosts_ = << >>
    /\ added = {}
    /\ hosts = << >>
    /\ in_sock_ = << >>
    /\ pushed = 0
    /\ ctlReq = NoReq
    /\ cur = NoReq
    /\ resps = << >>
    /\ snapshot = << >>
    /\ pc = "poll"
    /\ target = 0
    /\ tickerSubs = {CoordinatorTick}
    /\ clock = 0
    /\ client = "idle"
    /\ aborted = FALSE

\* ---------------------------------------------------------------- upstream
\* the producer pushes the next batch onto in_sock_
Push ==
    /\ ~aborted
    /\ pushed < MaxBatches
    /\ pushed' = pushed + 1
    /\ in_sock_' = Append(in_sock_, pushed + 1)
    /\ UNCHANGED << report_hosts_, added, hosts, ctlReq, cur, resps, snapshot, pc, target,
                    tickerSubs, clock, client, aborted >>

\* ---------------------------------------------------------------- host worker
\* a worker thread that enters its loop without initializing the ticks
HostTicksInit_Skipped(h) ==
    /\ ~aborted /\ ~hosts[h].destroyed
    /\ hosts[h].pc = "init"
    /\ hosts' = [hosts EXCEPT ![h].pc = "loop"]
    /\ UNCHANGED << report_hosts_, added, in_sock_, pushed, ctlReq, cur, resps, snapshot,
                    pc, target, tickerSubs, clock, client, aborted >>

\* report_->ticks_init(os_unix::clock_monotonic_now())
HostTicksInit(h) ==
    /\ ~aborted /\ ~hosts[h].destroyed
    /\ hosts[h].pc = "init"
    /\ hosts' = [hosts EXCEPT ![h].pc = "loop",
                              ![h].ticks_init = @ + 1,
                              ![h].accesses = @ \cup {<<"ticks_init", "worker">>}]
    /\ UNCHANGED << report_hosts_, added, in_sock_, pushed, ctlReq, cur, resps, snapshot,
                    pc, target, tickerSubs, clock, client, aborted >>

\* ticker_chan_ handler: chan.recv(); report_->tick_now(now)
HostTick(h) ==
    /\ ~aborted /\ ~hosts[h].destroyed
    /\ hosts[h].pc = "loop"
    /\ hosts[h].name \in tickerSubs
    /\ clock < MaxClock
    /\ clock' = clock + 1
    /\ hosts' = [hosts EXCEPT ![h].accesses = @ \cup {<<"tick_now", "worker">>}]
    /\ UNCHANGED << report_hosts_, added, in_sock_, pushed, ctlReq, cur, resps, snapshot,
                    pc, target, tickerSubs, client, aborted >>

\* a packets handler that counts batches where the code counts packets
HostPacketsRecv_CountsBatches(h) ==
    /\ ~aborted /\ ~hosts[h].destroyed
    /\ hosts[h].pc = "loop"
    /\ hosts[h].queue # << >>
    /\ LET batch == Head(hosts[h].queue) IN
       hosts' = [hosts EXCEPT
                    ![h].pc = "add_multi",
                    ![h].queue = Tail(@),
                    ![h].packets_received = @ + 1,
                    ![h].ingested = Append(@, -batch),
                    ![h].accesses = @ \cup {<<"add_multi", "worker">>}]
    /\ UNCHANGED << report_hosts_, added, in_sock_, pushed, ctlReq, cur, resps, snapshot,
                    pc, target, tickerSubs, clock, client, aborted >>

\* packets_recv_sock_ handler
HostPackets(h) ==
    /\ ~aborted /\ ~hosts[h].destroyed
    /\ hosts[h].pc = "loop"
    /\ hosts[h].queue # << >>
    /\ LET batch == Head(hosts[h].queue) IN
       hosts' = [hosts EXCEPT
                    ![h].queue = Tail(@),
                    ![h].packets_received = @ + PacketCount(batch),
                    ![h].ingested = Append(@, batch),
                    ![h].accesses = @ \cup {<<"add_multi", "worker">>}]
    /\ UNCHANGED << report_hosts_, added, in_sock_, pushed, ctlReq, cur, resps, snapshot,
                    pc, target, tickerSubs, clock, client, aborted >>

\* packets_recv_sock_ handler in two steps, with add_multi in progress in
\* between: the batch is received and packets_received is advanced ...
\* (a batch add_multi has begun and not finished is written negated)
HostPacketsRecv(h) ==
    /\ ~aborted /\ ~hosts[h].destroyed
    /\ hosts[h].pc = "loop"
    /\ hosts[h].queue # << >>
    /\ LET batch == Head(hosts[h].queue) IN
       hosts' = [hosts EXCEPT
                    ![h].pc = "add_multi",
                    ![h].queue = Tail(@),
                    ![h].packets_received = @ + PacketCount(batch),
                    ![h].ingested = Append(@, -batch),
                    ![h].accesses = @ \cup {<<"add_multi", "worker">>}]
    /\ UNCHANGED << report_hosts_, added, in_sock_, pushed, ctlReq, cur, resps, snapshot,
                    pc, target, tickerSubs, clock, client, aborted >>

\* ... and report_->add_multi returns: the handler is over
HostAddMulti(h) ==
    /\ ~aborted /\ ~hosts[h].destroyed
    /\ hosts[h].pc = "add_multi"
    /\ hosts' = [hosts EXCEPT
                    ![h].pc = "loop",
                    ![h].ingested = [@ EXCEPT ![Len(@)] = -@]]
    /\ UNCHANGED << report_hosts_, added, in_sock_, pushed, ctlReq, cur, resps, snapshot,
                    pc, target, tickerSubs, clock, client, aborted >>

\* reqrep_sock_ handler: req->func(report_.get()), then the reply.  The
\* callback shipped by GET_REPORT_SNAPSHOT stores report->get_snapshot()
\* in the coordinator's local.  Nothing on the worker thread catches an
\* exception of the callback, so a throwing callback leaves the thread
\* function: std::terminate().
HostReqRep(h, throws) ==
    /\ ~aborted /\ ~hosts[h].destroyed
    /\ hosts[h].pc = "loop"
    /\ hosts[h].req = "pending"
    /\ IF throws
       THEN /\ aborted' = TRUE
            /\ hosts' = [hosts EXCEPT
                            ![h].cb_failed = TRUE,
                            ![h].accesses = @ \cup {<<"get_snapshot", "worker">>}]
            /\ UNCHANGED snapshot
       ELSE /\ snapshot' = hosts[h].ingested
            /\ hosts' = [hosts EXCEPT
                            ![h].req = "replied",
                            ![h].accesses = @ \cup {<<"get_snapshot", "worker">>}]
            /\ UNCHANGED aborted
    /\ UNCHANGED << report_hosts_, added, in_sock_, pushed, ctlReq, cur, resps,
                    pc, target, tickerSubs, clock, client >>

\* a shutdown handler that leaves its loop and sends no acknowledgement
HostShutdown_NoAck(h) ==
    /\ ~aborted /\ ~hosts[h].destroyed
    /\ hosts[h].pc = "loop"
    /\ hosts[h].shut = "pending"
    /\ hosts' = [hosts EXCEPT ![h].pc = "stopping"]
    /\ UNCHANGED << report_hosts_, added, in_sock_, pushed, ctlReq, cur, resps, snapshot,
                    pc, target, tickerSubs, clock, client, aborted >>

\* shutdown_sock_ handler: recv, set_shutdown_flag, send(1)
HostShutdown(h) ==
    /\ ~aborted /\ ~hosts[h].destroyed
    /\ hosts[h].pc = "loop"
    /\ hosts[h].shut = "pending"
    /\ hosts' = [hosts EXCEPT ![h].shut = "acked", ![h].pc = "stopping"]
    /\ UNCHANGED << report_hosts_, added, in_sock_, pushed, ctlReq, cur, resps, snapshot,
                    pc, target, tickerSubs, clock, client, aborted >>

\* a thread that ends and leaves its ticker subscription behind
HostExit_NoUnsubscribe(h) ==
    /\ ~aborted /\ ~hosts[h].destroyed
    /\ hosts[h].pc = "stopping"
    /\ hosts' = [hosts EXCEPT ![h].pc = "exited"]
    /\ UNCHANGED << report_hosts_, added, in_sock_, pushed, ctlReq, cur, resps, snapshot,
                    pc, target, tickerSubs, clock, client, aborted >>

\* after loop(): globals_->ticker()->unsubscribe(ticker_chan_); the thread ends
HostExit(h) ==
    /\ ~aborted /\ ~hosts[h].destroyed
    /\ hosts[h].pc = "stopping"
    /\ tickerSubs' = tickerSubs \ {hosts[h].name}
    /\ hosts' = [hosts EXCEPT ![h].pc = "exited"]
    /\ UNCHANGED << report_hosts_, added, in_sock_, pushed, ctlReq, cur, resps, snapshot,
                    pc, target, clock, client, aborted >>

\* ---------------------------------------------------------------- coordinator
\* an index that counts the hosts ever constructed
thread_id_counter == Len(hosts)

\* report_hosts_.size()
thread_id == Cardinality(DOMAIN report_hosts_)

\* nn_bind of an inproc address fails while a live socket is bound to it:
\* the constructor's bind of conf_.nn_packets throws when a live host was
\* built from the same rh_name
BindFails(rh_name) == \E h \in Live : hosts[h].name = rh_name

\* ~report_host___new_thread_t: destroying t_ while it is joinable (started
\* and never joined) calls std::terminate()
DestroyTerminates(H) == ~H.joined

\* a relay loop that stops at the first host whose send fails
FanOutTargets_StopAtFull ==
    {h \in Range(report_hosts_) :
        \A g \in Range(report_hosts_) : g < h => SendSucceeds(hosts[g].queue)}

\* the hosts an in_sock_ batch is relayed to: for (auto& report_host : report_hosts_)
FanOutTargets == Registered

\* in_sock_ handler body: process_batch on every registered host
FanOut(batch) ==
    [h \in HostIds |-> IF h \in FanOutTargets
                       THEN process_batch(hosts[h], batch)
                       ELSE hosts[h]]

\* the hosts the SHUTDOWN loop has still to shut down
ShutdownPending == {h \in Registered : ~hosts[h].joined}

\* tick_chan handler: chan.recv()
CoordTick ==
    /\ ~aborted
    /\ pc = "poll"
    /\ CoordinatorTick \in tickerSubs
    /\ clock < MaxClock
    /\ clock' = clock + 1
    /\ UNCHANGED << report_hosts_, added, hosts, in_sock_, pushed, ctlReq, cur, resps,
                    snapshot, pc, target, tickerSubs, client, aborted >>

\* in_sock_ handler
CoordBatch ==
    /\ ~aborted
    /\ pc = "poll"
    /\ in_sock_ # << >>
    /\ in_sock_' = Tail(in_sock_)
    /\ hosts' = FanOut(Head(in_sock_))
    /\ UNCHANGED << report_hosts_, added, pushed, ctlReq, cur, resps, snapshot, pc, target,
                    tickerSubs, clock, client, aborted >>

\* control_recv() of a request of type t
ControlRecv(t) ==
    /\ ~aborted
    /\ pc = "poll"
    /\ ctlReq.type = t
    /\ cur' = ctlReq
    /\ ctlReq' = NoReq

\* case COORDINATOR_REQ__CALL: r->func(this).  The handler's one catch
\* clause is catch (std::exception const&): a callback that throws an
\* exception of that family ("throws") is answered ERROR with e.what(); a
\* callback that throws a value of any other type ("throws_other") is not
\* caught, the exception leaves the thread function: std::terminate().
CoordCall ==
    /\ ControlRecv("CALL")
    /\ resps' = CASE ctlReq.fn = "throws" ->
                        << Generic("ERROR", <<"e.what(): ", "call">>) >>
                 []   ctlReq.fn = "throws_other" -> << >>
                 []   OTHER -> << OK >>
    /\ aborted' = (ctlReq.fn = "throws_other")
    /\ UNCHANGED << report_hosts_, added, hosts, in_sock_, pushed, snapshot, pc, target,
                    tickerSubs, clock, client >>

\* default: throw std::runtime_error("unknown coordinator_control_request type")
CoordUnknownType ==
    /\ ControlRecv("BOGUS")
    /\ resps' = << Generic("ERROR",
                     <<"unknown coordinator_control_request type: ", "BOGUS">>) >>
    /\ UNCHANGED << report_hosts_, added, hosts, in_sock_, pushed, snapshot, pc, target,
                    tickerSubs, clock, client, aborted >>

\* a shutdown flag the poller does not honour: the loop goes on
AfterShutdownFlag_Ignored == "poll"

\* poller.set_shutdown_flag(): the loop ends after the handler in progress
AfterShutdownFlag == "stopping"

\* case COORDINATOR_REQ__SHUTDOWN, up to the first blocking host->shutdown()
CoordShutdown ==
    /\ ControlRecv("SHUTDOWN")
    /\ IF ShutdownPending = {}
       THEN /\ pc' = AfterShutdownFlag
            /\ resps' = << OK >>
            /\ UNCHANGED << hosts, target >>
       ELSE /\ \E h \in ShutdownPending :
                 /\ hosts' = [hosts EXCEPT ![h] = shutdown_send(@)]
                 /\ target' = h
            /\ pc' = "wait_join"
            /\ resps' = << >>
    /\ UNCHANGED << report_hosts_, added, in_sock_, pushed, snapshot, tickerSubs, clock,
                    client, aborted >>

\* case COORDINATOR_REQ__ADD_REPORT
CoordAddReport ==
    /\ ControlRecv("ADD_REPORT")
    /\ LET report_name == ctlReq.name
           rh_name     == RhName(thread_id, report_name)
           rh          == NewHost(rh_name, report_name)
       IN  IF BindFails(rh_name)
           THEN \* the constructor throws; caught: ERROR
                /\ resps' = << Generic("ERROR", <<"nn_bind failed: ", report_name>>) >>
                /\ UNCHANGED << report_hosts_, hosts, tickerSubs, aborted >>
           ELSE /\ tickerSubs' = tickerSubs \cup {rh_name}
                /\ IF report_name \in DOMAIN report_hosts_
                   THEN \* emplace inserts nothing and the new host is destroyed
                        /\ hosts' = Append(hosts, Destroyed(rh))
                        /\ aborted' = DestroyTerminates(rh)
                        /\ resps' = IF DestroyTerminates(rh) THEN << >> ELSE << OK >>
                        /\ UNCHANGED report_hosts_
                   ELSE /\ hosts' = Append(hosts, rh)
                        /\ report_hosts_' =
                              report_hosts_ @@ (report_name :> Len(hosts) + 1)
                        /\ resps' = << OK >>
                        /\ UNCHANGED aborted
    /\ added' = added \cup {ctlReq.name}
    /\ UNCHANGED << in_sock_, pushed, snapshot, pc, target, clock, client >>

\* case COORDINATOR_REQ__DELETE_REPORT, up to the blocking host->shutdown()
CoordDeleteReport ==
    /\ ControlRecv("DELETE_REPORT")
    /\ IF ctlReq.name \notin DOMAIN report_hosts_
       THEN /\ resps' = << UnknownReport(ctlReq.name) >>
            /\ UNCHANGED << hosts, pc, target >>
       ELSE /\ hosts' = [hosts EXCEPT ![report_hosts_[ctlReq.name]] = shutdown_send(@)]
            /\ target' = report_hosts_[ctlReq.name]
            /\ pc' = "wait_join"
            /\ resps' = << >>
    /\ UNCHANGED << report_hosts_, added, in_sock_, pushed, snapshot, tickerSubs, clock,
                    client, aborted >>

\* case COORDINATOR_REQ__GET_REPORT_SNAPSHOT, up to the blocking recv of
\* call_with_report
CoordGetSnapshot ==
    /\ ControlRecv("GET_REPORT_SNAPSHOT")
    /\ IF ctlReq.name \notin DOMAIN report_hosts_
       THEN /\ resps' = << UnknownReport(ctlReq.name) >>
            /\ UNCHANGED << hosts, pc, target, snapshot >>
       ELSE /\ hosts' = [hosts EXCEPT
                            ![report_hosts_[ctlReq.name]] = call_with_report_send(@)]
            /\ target' = report_hosts_[ctlReq.name]
            /\ pc' = "wait_reply"
            /\ snapshot' = << >>
            /\ resps' = << >>
    /\ UNCHANGED << report_hosts_, added, in_sock_, pushed, tickerSubs, clock, client,
                    aborted >>

\* shutdown() without the t_.join()
ShutdownReturns_NoJoin(h) == hosts[h].shut = "acked"

\* host->shutdown() returns: sock.recv<int>() got the acknowledgement and
\* t_.join() returned
ShutdownReturns(h) == hosts[h].shut = "acked" /\ hosts[h].pc = "exited"

\* DELETE_REPORT after host->shutdown(): erase (which destroys the host), reply
CoordDeleteFinish ==
    /\ ~aborted
    /\ pc = "wait_join" /\ cur.type = "DELETE_REPORT"
    /\ ShutdownReturns(target)
    /\ LET H == [hosts[target] EXCEPT !.joined = TRUE] IN
         /\ hosts' = [hosts EXCEPT ![target] = Destroyed(H)]
         /\ aborted' = DestroyTerminates(H)
         /\ resps' = IF DestroyTerminates(H) THEN << >> ELSE << OK >>
    /\ report_hosts_' = [n \in DOMAIN report_hosts_ \ {cur.name} |-> report_hosts_[n]]
    /\ added' = added \ {cur.name}
    /\ pc' = "poll"
    /\ target' = 0
    /\ UNCHANGED << in_sock_, pushed, ctlReq, cur, snapshot, tickerSubs, clock, client >>

\* SHUTDOWN after one host->shutdown(): the next host, or set_shutdown_flag and reply
CoordShutdownNext ==
    /\ ~aborted
    /\ pc = "wait_join" /\ cur.type = "SHUTDOWN"
    /\ ShutdownReturns(target)
    /\ LET joined == [hosts EXCEPT ![target].joined = TRUE]
           rest   == ShutdownPending \ {target}
       IN  IF rest = {}
           THEN /\ hosts' = joined
                /\ pc' = AfterShutdownFlag
                /\ target' = 0
                /\ resps' = << OK >>
           ELSE /\ \E h \in rest :
                     /\ hosts' = [joined EXCEPT ![h] = shutdown_send(@)]
                     /\ target' = h
                /\ UNCHANGED << pc, resps >>
    /\ UNCHANGED << report_hosts_, added, in_sock_, pushed, ctlReq, cur, snapshot, tickerSubs,
                    clock, client, aborted >>

\* GET_REPORT_SNAPSHOT after call_with_report returned: reply with the snapshot
CoordSnapshotReply ==
    /\ ~aborted
    /\ pc = "wait_reply"
    /\ hosts[target].req = "replied"
    /\ hosts' = [hosts EXCEPT ![target].req = "none"]
    /\ resps' = << SnapshotResponse(snapshot) >>
    /\ snapshot' = << >>
    /\ pc' = "poll"
    /\ target' = 0
    /\ UNCHANGED << report_hosts_, added, in_sock_, pushed, ctlReq, cur, tickerSubs,
                    clock, client, aborted >>

\* after loop(): globals_->ticker()->unsubscribe(tick_chan); the thread ends
CoordExit ==
    /\ ~aborted
    /\ pc = "stopping"
    /\ tickerSubs' = tickerSubs \ {CoordinatorTick}
    /\ pc' = "exited"
    /\ UNCHANGED << report_hosts_, added, hosts, in_sock_, pushed, ctlReq, cur, resps,
                    snapshot, target, clock, client, aborted >>

\* ---------------------------------------------------------------- client
\* the control requests a client sends through coordinator_impl_t::request
ClientRequests ==
    {Req("CALL", "", f) : f \in {"ok", "throws", "throws_other"}}
    \cup {Req("BOGUS", "", "")}
    \cup {Req(t, n, "") : t \in {"ADD_REPORT", "DELETE_REPORT", "GET_REPORT_SNAPSHOT"},
                          n \in Names}

\* request/reply is strict: the previous exchange has been answered
ExchangeIdle == ctlReq = NoReq /\ (cur = NoReq \/ resps # << >>)

\* bound of a specification on the host objects constructed, max in all: it
\* lets an ADD_REPORT be sent only while one more host may be constructed, or
\* when it constructs none
WithinHosts(r, max) ==
    r.type = "ADD_REPORT" =>
        (Len(hosts) < max \/ BindFails(RhName(thread_id, r.name)))

\* coordinator_impl_t::request: sock.send_message(req); the recv of the
\* response is the precondition ExchangeIdle of the next call
ClientRequest(r) ==
    /\ ~aborted
    /\ client = "idle"
    /\ ExchangeIdle
    /\ ctlReq' = r
    /\ UNCHANGED << report_hosts_, added, hosts, in_sock_, pushed, cur, resps, snapshot, pc,
                    target, tickerSubs, clock, client, aborted >>

\* coordinator_impl_t::shutdown: this->request(shutdown request) ...
ClientShutdown ==
    /\ ~aborted
    /\ client = "idle"
    /\ ExchangeIdle
    /\ ctlReq' = Req("SHUTDOWN", "", "")
    /\ client' = "in_shutdown"
    /\ UNCHANGED << report_hosts_, added, hosts, in_sock_, pushed, cur, resps, snapshot, pc,
                    target, tickerSubs, clock, aborted >>

\* ... the response arrives and t_.join() returns
ClientShutdownReturn ==
    /\ ~aborted
    /\ client = "in_shutdown"
    /\ cur.type = "SHUTDOWN" /\ resps # << >>
    /\ pc = "exited"
    /\ client' = "returned"
    /\ UNCHANGED << report_hosts_, added, hosts, in_sock_, pushed, ctlReq, cur, resps,
                    snapshot, pc, target, tickerSubs, clock, aborted >>

\* ---------------------------------------------------------------- specification
Next ==
    \/ Push
    \/ \E r \in ClientRequests : WithinHosts(r, MaxHosts) /\ ClientRequest(r)
    \/ ClientShutdown
    \/ ClientShutdownReturn
    \/ CoordTick
    \/ CoordBatch
    \/ CoordCall
    \/ CoordUnknownType
    \/ CoordShutdown
    \/ CoordAddReport
    \/ CoordDeleteReport
    \/ CoordGetSnapshot
    \/ CoordDeleteFinish
    \/ CoordShutdownNext
    \/ CoordSnapshotReply
    \/ CoordExit
    \/ \E h \in HostIds : HostTicksInit(h)
    \/ \E h \in HostIds : HostTick(h)
    \/ \E h \in HostIds : HostPackets(h)
    \/ \E h \in HostIds, throws \in BOOLEAN : HostReqRep(h, throws)
    \/ \E h \in HostIds : HostShutdown(h)
    \/ \E h \in HostIds : HostExit(h)

Spec == Init /\ [][Next]_vars

\* the control plane alone: no batches and no ticks, and one more host
\* constructed than elsewhere (ADD a, ADD b, DELETE a, ADD a)
ControlNext ==
    \/ \E r \in ClientRequests : WithinHosts(r, MaxControlHosts) /\ ClientRequest(r)
    \/ ClientShutdown
    \/ ClientShutdownReturn
    \/ CoordCall
    \/ CoordUnknownType
    \/ CoordShutdown
    \/ CoordAddReport
    \/ CoordDeleteReport
    \/ CoordGetSnapshot
    \/ CoordDeleteFinish
    \/ CoordShutdownNext
    \/ CoordSnapshotReply
    \/ CoordExit
    \/ \E h \in HostIds : HostTicksInit(h)
    \/ \E h \in HostIds, throws \in BOOLEAN : HostReqRep(h, throws)
    \/ \E h \in HostIds : HostShutdown(h)
    \/ \E h \in HostIds : HostExit(h)

ControlSpec == Init /\ [][ControlNext]_vars

\* the data plane with the control requests that reach a report: clients
\* send no CALL and no unrecognized request
DataNext ==
    \/ Push
    \/ \E r \in {q \in ClientRequests : q.type \notin {"CALL", "BOGUS"}} :
          WithinHosts(r, MaxHosts) /\ ClientRequest(r)
    \/ ClientShutdown
    \/ ClientShutdownReturn
    \/ CoordTick
    \/ CoordBatch
    \/ CoordShutdown
    \/ CoordAddReport
    \/ CoordDeleteReport
    \/ CoordGetSnapshot
    \/ CoordDeleteFinish
    \/ CoordShutdownNext
    \/ CoordSnapshotReply
    \/ CoordExit
    \/ \E h \in HostIds : HostTicksInit(h)
    \/ \E h \in HostIds : HostTick(h)
    \/ \E h \in HostIds : HostPackets(h)
    \/ \E h \in HostIds, throws \in BOOLEAN : HostReqRep(h, throws)
    \/ \E h \in HostIds : HostShutdown(h)
    \/ \E h \in HostIds : HostExit(h)

DataSpec == Init /\ [][DataNext]_vars

\* the batch queues alone: reports are added and deleted, batches are pushed,
\* relayed and ingested, and the coordinator is shut down; no ticks and no
\* snapshot requests
QueueNext ==
    \/ Push
    \/ \E r \in {q \in ClientRequests : q.type \in {"ADD_REPORT", "DELETE_REPORT"}} :
          WithinHosts(r, MaxHosts) /\ ClientRequest(r)
    \/ ClientShutdown
    \/ ClientShutdownReturn
    \/ CoordBatch
    \/ CoordShutdown
    \/ CoordAddReport
    \/ CoordDeleteReport
    \/ CoordDeleteFinish
    \/ CoordShutdownNext
    \/ CoordExit
    \/ \E h \in HostIds : HostTicksInit(h)
    \/ \E h \in HostIds : HostPackets(h)
    \/ \E h \in HostIds : HostShutdown(h)
    \/ \E h \in HostIds : HostExit(h)

QueueSpec == Init /\ [][QueueNext]_vars

\* shutdown under load: reports are added, batches are pushed and relayed,
\* and shutdown() is called; every thread that can take a step eventually
\* takes one
ShutdownNext ==
    \/ Push
    \/ \E r \in {q \in ClientRequests : q.type \in {"ADD_REPORT", "DELETE_REPORT"}} :
          WithinHosts(r, MaxHosts) /\ ClientRequest(r)
    \/ ClientShutdown
    \/ ClientShutdownReturn
    \/ CoordTick
    \/ CoordBatch
    \/ CoordShutdown
    \/ CoordAddReport
    \/ CoordDeleteReport
    \/ CoordDeleteFinish
    \/ CoordShutdownNext
    \/ CoordExit
    \/ \E h \in HostIds : HostTicksInit(h)
    \/ \E h \in HostIds : HostTick(h)
    \/ \E h \in HostIds : HostPackets(h)
    \/ \E h \in HostIds : HostShutdown(h)
    \/ \E h \in HostIds : HostExit(h)

\* one step of the coordinator worker thread
CoordStep ==
    \/ CoordTick \/ CoordBatch
    \/ CoordShutdown \/ CoordAddReport \/ CoordDeleteReport
    \/ CoordDeleteFinish \/ CoordShutdownNext \/ CoordExit

\* one step of the worker thread of host h
HostStep(h) ==
    \/ HostTicksInit(h) \/ HostTick(h) \/ HostPackets(h)
    \/ HostShutdown(h) \/ HostExit(h)

\* the operating system schedules every runnable thread
Fairness ==
    /\ WF_vars(CoordStep)
    /\ \A h \in 1..MaxHosts : WF_vars(h \in HostIds /\ HostStep(h))
    /\ WF_vars(ClientShutdownReturn)

FairSpec == Init /\ [][ShutdownNext]_vars /\ Fairness

\* the handlers of one host at a finer grain: add_multi takes time, while
\* ticks, further batches and snapshot requests arrive
HandlerNext ==
    \/ Push
    \/ \E r \in {q \in ClientRequests : q.type \in {"ADD_REPORT", "GET_REPORT_SNAPSHOT"}} :
          WithinHosts(r, MaxHosts) /\ ClientRequest(r)
    \/ CoordTick
    \/ CoordBatch
    \/ CoordAddReport
    \/ CoordGetSnapshot
    \/ CoordSnapshotReply
    \/ \E h \in HostIds : HostTicksInit(h)
    \/ \E h \in HostIds : HostTick(h)
    \/ \E h \in HostIds : HostPacketsRecv(h)
    \/ \E h \in HostIds : HostAddMulti(h)
    \/ \E h \in HostIds, throws \in BOOLEAN : HostReqRep(h, throws)

HandlerSpec == Init /\ [][HandlerNext]_vars

\* ---------------------------------------------------------------- properties
\* this step is the control handler receiving a request of type t
Handles(t) == pc = "poll" /\ ctlReq.type = t /\ ctlReq' = NoReq

\* a response is an ERROR
IsError(r) == r.kind = "generic" /\ r.status = "ERROR"

\* the control handler is not in progress: it returned, or the process is gone
HandlerOver == aborted \/ pc \in {"poll", "stopping", "exited"}

\* the worker thread of h has ended, was joined, and its ticker subscription
\* is released
ShutDown(h) ==
    /\ hosts[h].pc = "exited"
    /\ hosts[h].joined
    /\ hosts[h].name \notin tickerSubs

\* C1: an ADD_REPORT whose report name is already a key of the registry is
\* answered with an ERROR response, constructs no host (no thread, no ticker
\* subscription) and leaves the registry, and the process, as they were.
C1_DuplicateAddRejected ==
    [][ (Handles("ADD_REPORT") /\ ctlReq.name \in DOMAIN report_hosts_)
          => /\ Len(resps') = 1 /\ IsError(resps'[1])
             /\ Len(hosts') = Len(hosts)
             /\ tickerSubs' = tickerSubs
             /\ report_hosts_' = report_hosts_
             /\ ~aborted' ]_vars

\* C2: when the callback shipped by call_with_report fails on the host
\* worker, the worker thread keeps running and the client's response, once
\* sent, is an ERROR.
C2_CallbackFailureIsAnError ==
    \A h \in HostIds :
        hosts[h].cb_failed =>
            /\ ThreadRunning(h)
            /\ (HandlerOver => Len(resps) = 1 /\ IsError(resps[1]))

\* C3: every control request the worker has received and finished handling
\* was answered with exactly one response.
C3_ExactlyOneResponse ==
    (cur # NoReq /\ HandlerOver) => Len(resps) = 1

\* C4: when shutdown() has returned, and already when the OK reply to
\* SHUTDOWN is sent, every host of the registry has been joined and its
\* ticker subscription released.
C4_ShutdownJoinsAll ==
    /\ (cur.type = "SHUTDOWN" /\ resps # << >>)
          => (resps = << OK >> /\ \A h \in Registered : ShutDown(h))
    /\ client = "returned"
          => (pc = "exited" /\ \A h \in Registered : ShutDown(h))

\* C4 witness: shutdown() returned with two hosts in the registry
C4_Witness ==
    /\ client = "returned"
    /\ Cardinality(Registered) = 2

\* C5: between control requests the keys of the registry are the names added
\* and not deleted since, each key has its own host, and that host's worker
\* thread is running.
C5_RegistryIsAddsMinusDeletes ==
    (HandlerOver /\ pc = "poll") =>
        /\ DOMAIN report_hosts_ = added
        /\ \A n, m \in DOMAIN report_hosts_ :
              report_hosts_[n] = report_hosts_[m] => n = m
        /\ \A n \in DOMAIN report_hosts_ :
              /\ hosts[report_hosts_[n]].report = n
              /\ ~hosts[report_hosts_[n]].destroyed
              /\ ThreadRunning(report_hosts_[n])

\* s[1] < s[2] < ...: no element twice, in ascending order
IsIncreasing(s) == \A i, j \in 1..Len(s) : i < j => s[i] < s[j]

SeqSet(s) == {s[i] : i \in 1..Len(s)}

\* this step is the in_sock_ handler relaying the head of in_sock_
Dispatches == pc = "poll" /\ in_sock_ # << >> /\ in_sock_' = Tail(in_sock_)

\* this step is the packets handler of host h ingesting a batch
Ingests(h) == Len(hosts'[h].ingested) > Len(hosts[h].ingested)

\* C6 (as claimed): a registered host ingests each batch at most once and in
\* the order the coordinator received them (batches are numbered in that
\* order), and once the sequence of what it ingests is final (its worker
\* thread has ended), a batch relayed to it is missing from that sequence only
\* if the host's queue was full when the batch was relayed.
C6_MissingOnlyIfQueueFull ==
    \A h \in Registered :
        LET H == hosts[h]
        IN  /\ IsIncreasing(H.ingested)
            /\ SeqSet(H.ingested) \subseteq SeqSet(H.offered)
            /\ H.pc = "exited" =>
                  \A b \in SeqSet(H.offered) \ SeqSet(H.ingested) :
                      \E i \in 1..Len(H.dropped) :
                          H.dropped[i].batch = b /\ H.dropped[i].qlen >= Capacity

\* C6 (amended): a host ingests each batch at most once and in the order the
\* coordinator received them; a relayed batch enters the host's queue at its
\* tail unless the queue already holds Capacity batches, and then the queue
\* is left as it is; a batch leaves the queue only at its head, ingested by
\* the running worker thread.  So a relayed batch that the host never ingests
\* either met a full queue or was still in the queue when the host was shut
\* down.
C6_AtMostOnceInOrder ==
    [][ /\ \A h \in Live' :
              LET H    == hosts'[h]
                  seen == H.ingested \o H.queue
              IN  /\ IsIncreasing(seen)
                  /\ IsIncreasing(H.offered)
                  /\ SeqSet(seen) \subseteq SeqSet(H.offered)
                  /\ Len(H.queue) <= Capacity
        /\ Dispatches =>
              \A h \in Registered :
                  /\ hosts'[h].offered = Append(hosts[h].offered, Head(in_sock_))
                  /\ hosts'[h].ingested = hosts[h].ingested
                  /\ IF Len(hosts[h].queue) = Capacity
                     THEN hosts'[h].queue = hosts[h].queue
                     ELSE hosts'[h].queue = Append(hosts[h].queue, Head(in_sock_))
        /\ \A h \in Live \cap Live' :
              /\ Ingests(h) =>
                    /\ hosts[h].pc = "loop"
                    /\ hosts[h].queue # << >>
                    /\ hosts'[h].ingested = Append(hosts[h].ingested, Head(hosts[h].queue))
                    /\ hosts'[h].queue = Tail(hosts[h].queue)
              /\ hosts'[h].queue # hosts[h].queue =>
                    (Ingests(h) \/ (Dispatches /\ h \in Registered)) ]_vars

\* C6 witness: a host was relayed three batches while it did not drain: two
\* were queued together and the third met the full queue; it ingested the
\* first and was shut down with the second still in its queue
C6_Witness ==
    \E h \in Live :
        /\ hosts[h].pc = "exited"
        /\ hosts[h].offered = <<1, 2, 3>>
        /\ hosts[h].ingested = <<1>>
        /\ hosts[h].queue = <<2>>
        /\ Len(hosts[h].dropped) = 1 /\ hosts[h].dropped[1].batch = 3
        /\ hosts[h].dropped[1].qlen = Capacity

\* C7: the host's drop counter equals the number of batches process_batch
\* dropped for it.
C7_DropCounterCounts ==
    \A h \in Live : hosts[h].drop_counter = Len(hosts[h].dropped)

\* C8: relaying a batch delivers it to every registered host whose queue has
\* room, whatever the other hosts' queues, and leaves the coordinator worker
\* at its poller.
C8_DispatchNeverBlocks ==
    [][ Dispatches =>
          /\ pc' = "poll"
          /\ ~aborted'
          /\ \A h \in Registered :
                Len(hosts[h].queue) < Capacity =>
                    hosts'[h].queue = Append(hosts[h].queue, Head(in_sock_)) ]_vars

\* C8 witness: one batch was dropped by a host with a full queue and delivered
\* to another host, and the coordinator is back at its poller
C8_Witness ==
    /\ pc = "poll"
    /\ \E h1, h2 \in Registered :
          \E i \in 1..Len(hosts[h1].dropped) :
              hosts[h1].dropped[i].batch \in
                  SeqSet(hosts[h2].ingested \o hosts[h2].queue)

\* C9 as claimed: every access to a host's report, info included, is made by
\* the host's worker thread.
C9_AllAccessOnWorker ==
    \A h \in HostIds : \A a \in hosts[h].accesses : a[2] = "worker"

\* C9 amended: ticks_init, tick_now, add_multi and the shipped callback
\* (get_snapshot) run on the host's worker thread; name and info are called
\* by the coordinator thread, in the ADD_REPORT handler and in startup(),
\* before the worker thread has touched the report.
C9_AccessOnWorkerExceptInfo ==
    \A h \in Live :
        /\ <<"info", "coordinator">> \in hosts[h].accesses
        /\ \A a \in hosts[h].accesses :
              a[2] = (IF a[1] \in {"name", "info"} THEN "coordinator" ELSE "worker")
        /\ hosts[h].pc = "init" =>
              hosts[h].accesses = {<<"name", "coordinator">>, <<"info", "coordinator">>}

\* C9 witness: every method of one report has been called
C9_Witness ==
    \E h \in Live : {a[1] : a \in hosts[h].accesses} =
        {"name", "info", "ticks_init", "tick_now", "add_multi", "get_snapshot"}

\* C10: a DELETE_REPORT or GET_REPORT_SNAPSHOT naming no key of the registry
\* is answered ERROR "unknown report: <name>" and changes nothing; an
\* ADD_REPORT of a new name handled next is answered OK and registers a
\* running host.
C10_UnknownReportIsAnError ==
    [][ /\ ((Handles("DELETE_REPORT") \/ Handles("GET_REPORT_SNAPSHOT"))
              /\ ctlReq.name \notin DOMAIN report_hosts_)
            => /\ Len(resps') = 1
               /\ IsError(resps'[1])
               /\ resps'[1].msg = <<"unknown report: ", ctlReq.name>>
               /\ report_hosts_' = report_hosts_
               /\ hosts' = hosts
               /\ tickerSubs' = tickerSubs
               /\ pc' = "poll"
               /\ ~aborted'
        /\ (/\ Handles("ADD_REPORT")
            /\ ctlReq.name \notin DOMAIN report_hosts_
            /\ cur.type \in {"DELETE_REPORT", "GET_REPORT_SNAPSHOT"}
            /\ Len(resps) = 1 /\ IsError(resps[1]))
            => /\ resps' = << OK >>
               /\ ctlReq.name \in DOMAIN report_hosts_'
               /\ hosts'[report_hosts_'[ctlReq.name]].pc = "init"
               /\ ~aborted' ]_vars

\* C10 witness: an unknown report was answered ERROR with a host registered,
\* and an ADD_REPORT of a new name is queued behind it
C10_Witness ==
    /\ cur.type \in {"DELETE_REPORT", "GET_REPORT_SNAPSHOT"}
    /\ cur.name \notin DOMAIN report_hosts_
    /\ Len(resps) = 1 /\ IsError(resps[1])
    /\ Registered # {}
    /\ ctlReq.type = "ADD_REPORT"
    /\ ctlReq.name \notin DOMAIN report_hosts_

\* C11: the step that answers DELETE_REPORT(N) with OK finds the host of N
\* with its shutdown acknowledged and its worker thread ended, joins the
\* thread, leaves no ticker subscription of that host and no key N in the
\* registry; and an ADD_REPORT of a name that was deleted before and is not
\* in the registry is answered OK and registers a fresh host, subscribed to
\* the ticker, whose thread is starting.
C11_DeleteReleasesName ==
    [][ /\ (/\ pc = "wait_join" /\ cur.type = "DELETE_REPORT"
            /\ pc' = "poll" /\ resps' = << OK >>)
            => /\ hosts[target].shut = "acked"
               /\ hosts[target].pc = "exited"
               /\ hosts'[target].joined
               /\ hosts'[target].destroyed
               /\ hosts[target].name \notin tickerSubs'
               /\ hosts[target].report = cur.name
               /\ cur.name \notin DOMAIN report_hosts_'
               /\ target \notin Range(report_hosts_')
        /\ (/\ Handles("ADD_REPORT")
            /\ ctlReq.name \notin DOMAIN report_hosts_
            /\ \E h \in HostIds : hosts[h].destroyed /\ hosts[h].report = ctlReq.name)
            => /\ resps' = << OK >>
               /\ Len(hosts') = Len(hosts) + 1
               /\ report_hosts_'[ctlReq.name] = Len(hosts')
               /\ hosts'[Len(hosts')].pc = "init"
               /\ ~hosts'[Len(hosts')].destroyed
               /\ hosts'[Len(hosts')].ingested = << >>
               /\ hosts'[Len(hosts')].name \in tickerSubs'
               /\ ~aborted' ]_vars

\* C11 witness: a report name was deleted with OK and added again with OK:
\* its old host is destroyed and a later host is registered under the name
C11_Witness ==
    /\ cur.type = "ADD_REPORT" /\ resps = << OK >>
    /\ cur.name \in DOMAIN report_hosts_
    /\ \E h \in HostIds :
          /\ hosts[h].destroyed /\ hosts[h].joined
          /\ hosts[h].report = cur.name
          /\ h < report_hosts_[cur.name]
          /\ hosts[h].name = hosts[report_hosts_[cur.name]].name

\* C12: a host object that was destroyed had its worker thread ended and
\* joined before: no handler (ADD_REPORT, a failed or duplicate one too,
\* DELETE_REPORT, SHUTDOWN) destroys a host whose thread is running or
\* unjoined.
C12_DestroyedAfterThreadEnd ==
    \A h \in HostIds :
        hosts[h].destroyed => (hosts[h].pc = "exited" /\ hosts[h].joined)

\* the handler of the request received in this step fails with an exception:
\* a CALL callback that throws, an unrecognized request type, a host
\* constructor whose bind throws
HandlerThrows ==
    \/ Handles("CALL") /\ ctlReq.fn # "ok"
    \/ Handles("BOGUS")
    \/ Handles("ADD_REPORT") /\ BindFails(RhName(thread_id, ctlReq.name))

\* C13: every failure raised while the coordinator handles a control request
\* is answered with exactly one ERROR response that carries a message, the
\* registry and the hosts are as the handler left them, and the coordinator
\* is back in its loop.
C13_HandlerFailureIsAnError ==
    [][ HandlerThrows
        => /\ Len(resps') = 1
           /\ IsError(resps'[1])
           /\ resps'[1].msg # << >>
           /\ report_hosts_' = report_hosts_
           /\ hosts' = hosts
           /\ pc' = "poll"
           /\ ~aborted' ]_vars

\* the part of C13 the code keeps: failures of the std::exception family
C13_StdExceptionIsAnError ==
    [][ (HandlerThrows /\ ctlReq.fn # "throws_other")
        => /\ Len(resps') = 1
           /\ IsError(resps'[1])
           /\ resps'[1].msg # << >>
           /\ report_hosts_' = report_hosts_
           /\ hosts' = hosts
           /\ pc' = "poll"
           /\ ~aborted' ]_vars

\* no two host objects that exist have the same host name
LiveNamesDistinct ==
    \A g, h \in Live : hosts[g].name = hosts[h].name => g = h

\* C14: after every step the names of the live hosts (the names of their
\* ticker subscriptions and of their endpoints) are pairwise distinct, also
\* among hosts that were given the same index; the name the ADD_REPORT handler
\* derives for a report name that is not in the registry is never the name of
\* a live host or of a live subscription, so that such an ADD_REPORT never
\* depends on a failing bind; and the name derived for a report name that is
\* in the registry is in use only by the host registered under that very
\* report name.
C14_HostNamesDistinct ==
    [][ /\ LiveNamesDistinct'
        /\ (Handles("ADD_REPORT") /\ ctlReq.name \notin DOMAIN report_hosts_)
            => /\ ~BindFails(RhName(thread_id, ctlReq.name))
               /\ RhName(thread_id, ctlReq.name) \notin tickerSubs
               /\ Len(hosts') = Len(hosts) + 1
               /\ hosts'[Len(hosts')].name = RhName(thread_id, ctlReq.name)
        /\ (Handles("ADD_REPORT") /\ ctlReq.name \in DOMAIN report_hosts_)
            => \A h \in Live :
                  hosts[h].name = RhName(thread_id, ctlReq.name)
                     => h = report_hosts_[ctlReq.name] ]_vars

\* C14 witness: two hosts are live at once under the same index and different
\* report names, both registered and both subscribed to the ticker: ADD a,
\* ADD b, DELETE a, ADD a leaves rh/1/a next to rh/1/b
C14_Witness ==
    \E g, h \in Live :
        /\ g < h
        /\ g \in Registered /\ h \in Registered
        /\ hosts[g].name \in tickerSubs /\ hosts[h].name \in tickerSubs
        /\ hosts[g].name[1] = hosts[h].name[1]
        /\ hosts[g].name[2] # hosts[h].name[2]
        /\ \E d \in HostIds : d < g /\ hosts[d].destroyed /\ hosts[d].joined

\* C15: under fair scheduling of the threads, a shutdown() called on a
\* running coordinator returns, whatever the number of registered hosts and
\* whatever batches are queued at the coordinator or at the hosts; and a
\* batch relayed while no host is registered is discarded: it reaches no
\* host and the coordinator stays at its poller.
C15_ShutdownReturns ==
    /\ (client = "in_shutdown") ~> (client = "returned")
    /\ [][ (Dispatches /\ Registered = {})
              => (hosts' = hosts /\ pc' = "poll" /\ ~aborted') ]_vars

\* C15 witness: shutdown() returned with two hosts registered and a batch
\* still queued at the coordinator
C15_Witness ==
    /\ client = "returned"
    /\ Cardinality(Registered) = 2
    /\ in_sock_ # << >>

\* C16 (as claimed): the index of the host name grows strictly from one
\* constructed host to the next, deletes in between or not: hosts, with the
\* destroyed ones, are kept in the order of their construction.
C16_IndexStrictlyIncreasing ==
    \A g, h \in HostIds : g < h => hosts[g].name[1] < hosts[h].name[1]

\* C16 (amended): the index of the host an ADD_REPORT constructs is the number
\* of entries of the registry when the request is handled, which is the
\* number of registered hosts and of live hosts at that moment.
C16_IndexIsRegistrySize ==
    [][ (Handles("ADD_REPORT") /\ Len(hosts') = Len(hosts) + 1)
        => /\ hosts'[Len(hosts')].name =
                 <<Cardinality(DOMAIN report_hosts_), ctlReq.name>>
           /\ hosts'[Len(hosts')].name[1] = Cardinality(Registered)
           /\ hosts'[Len(hosts')].name[1] =
                 Cardinality({h \in HostIds : ~hosts[h].destroyed}) ]_vars

\* C16 witness: a host was constructed with the index of an earlier host:
\* ADD_REPORT, DELETE_REPORT, ADD_REPORT
C16_Witness ==
    \E g, h \in HostIds :
        /\ g < h
        /\ hosts[g].destroyed /\ hosts[g].joined
        /\ h \in Registered
        /\ hosts[h].name[1] = hosts[g].name[1]

\* C17: from the moment the coordinator worker has received SHUTDOWN it
\* receives no further control request and relays no further batch, and once
\* it has replied its only step is the end of its thread; and process_batch
\* is called only on hosts that exist and whose worker thread has not ended.
C17_NothingAfterShutdown ==
    [][ /\ cur.type = "SHUTDOWN"
            => /\ cur' = cur
               /\ ~Dispatches
               /\ \A h \in HostIds : hosts'[h].offered = hosts[h].offered
               /\ Len(hosts') = Len(hosts)
               /\ report_hosts_' = report_hosts_
               /\ (resps # << >> => (pc' \in {"stopping", "exited"} /\ resps' = resps))
        /\ \A h \in HostIds :
              Len(hosts'[h].offered) > Len(hosts[h].offered)
                  => (~hosts[h].destroyed /\ hosts[h].pc # "exited") ]_vars

\* C17 witness: the coordinator thread has ended after a SHUTDOWN that shut a
\* host down, with a batch on in_sock_ that no host was offered
C17_Witness ==
    /\ pc = "exited"
    /\ cur.type = "SHUTDOWN"
    /\ in_sock_ # << >>
    /\ \E h \in Registered :
          /\ hosts[h].pc = "exited"
          /\ Head(in_sock_) \notin SeqSet(hosts[h].offered)

\* the methods of the report of h that have been called
Called(h) == {a[1] : a \in hosts[h].accesses}

\* C18 (as claimed): while ticks_init has not been called on a host's report,
\* no other method of the report has been called: no info, tick_now,
\* add_multi, get_snapshot.
C18_TicksInitBeforeAll ==
    \A h \in Live :
        hosts[h].ticks_init = 0 =>
            Called(h) \cap {"info", "tick_now", "add_multi", "get_snapshot"} = {}

\* C18 (amended): ticks_init is called once, as the first step of the worker
\* thread, and while it has not been called the report has seen no tick_now,
\* no add_multi and no callback, whatever is queued for the host; name and
\* info have been called before it, by the coordinator thread.
C18_TicksInitBeforeWorkerCalls ==
    \A h \in Live :
        /\ hosts[h].ticks_init \in {0, 1}
        /\ hosts[h].ticks_init = 0 <=> hosts[h].pc = "init"
        /\ hosts[h].ticks_init = 0 =>
              /\ Called(h) = {"name", "info"}
              /\ hosts[h].ingested = << >>
              /\ hosts[h].packets_received = 0
              /\ hosts[h].req # "replied"
              /\ hosts[h].shut # "acked"
        /\ hosts[h].ticks_init = 1 => {"name", "info", "ticks_init"} \subseteq Called(h)

\* C18 witness: ticks_init has just been called, first of the worker's
\* calls, with a batch queued and a callback waiting at the host
C18_Witness ==
    \E h \in Live :
        /\ hosts[h].ticks_init = 1
        /\ Called(h) = {"name", "info", "ticks_init"}
        /\ hosts[h].queue # << >>
        /\ hosts[h].req = "pending"

\* the callback shipped to host h is invoked in this step
Invoked(h) ==
    \/ hosts[h].req # "replied" /\ hosts'[h].req = "replied"
    \/ ~hosts[h].cb_failed /\ hosts'[h].cb_failed

\* C19: a callback is invoked on a host's report only while the host's
\* worker is between two handlers (no add_multi in progress), by the worker,
\* for a request that is waiting, and a tick of the report likewise;
\* call_with_report returns only after the callback was invoked, once; and
\* the snapshot sent to the client is made of whole batches, a prefix of what
\* the report has ingested.
C19_HandlersSerialized ==
    [][ /\ \A h \in HostIds :
              (~hosts[h].destroyed /\ Invoked(h))
                  => /\ hosts[h].pc = "loop"
                     /\ hosts[h].req = "pending"
                     /\ <<"get_snapshot", "worker">> \in hosts'[h].accesses
                     /\ \A i \in 1..Len(hosts[h].ingested) : hosts[h].ingested[i] > 0
        /\ \A h \in HostIds :
              (~hosts[h].destroyed
                 /\ <<"tick_now", "worker">> \in hosts'[h].accesses \ hosts[h].accesses)
                  => hosts[h].pc = "loop"
        /\ (pc = "wait_reply" /\ pc' # "wait_reply")
              => /\ hosts[target].req = "replied"
                 /\ hosts'[target].req = "none"
                 /\ resps' = << SnapshotResponse(snapshot) >>
                 /\ \A i \in 1..Len(snapshot) :
                       /\ snapshot[i] > 0
                       /\ i <= Len(hosts[target].ingested)
                       /\ hosts[target].ingested[i] \in {snapshot[i], -snapshot[i]} ]_vars

\* C19 witness: a snapshot request waits at a host whose worker is inside
\* add_multi, with one batch ingested before and a further batch queued
C19_Witness ==
    \E h \in Live :
        /\ hosts[h].pc = "add_multi"
        /\ hosts[h].req = "pending"
        /\ pc = "wait_reply" /\ target = h
        /\ Len(hosts[h].ingested) = 2

\* the packets of the batches of s
RECURSIVE PacketsOf(_)
PacketsOf(s) == IF s = << >> THEN 0 ELSE PacketCount(Head(s)) + PacketsOf(Tail(s))

\* the batches of s whose add_multi has returned
Completed(s) == SelectSeq(s, LAMBDA b : b > 0)

\* C20 (as claimed): for every host at every moment packets_received is the
\* sum of packet_count over the batches the report has ingested through
\* add_multi; and a host that was never refused a batch and has drained its
\* queue has ingested every batch relayed to it while registered, packet for
\* packet.
C20_PacketsReceivedIsSum ==
    \A h \in Live :
        /\ hosts[h].packets_received = PacketsOf(Completed(hosts[h].ingested))
        /\ (hosts[h].queue = << >> /\ hosts[h].dropped = << >>)
              => /\ Completed(hosts[h].ingested) = hosts[h].offered
                 /\ hosts[h].packets_received = PacketsOf(hosts[h].offered)

\* C20 (amended): between the handlers of a host's worker, packets_received
\* is the sum of packet_count over the batches the report has ingested
\* through add_multi; while add_multi runs, the counter is ahead of the report
\* by the packet_count of the one batch being ingested; and a host that was
\* never refused a batch, has drained its queue and is between handlers has
\* ingested exactly the batches relayed to it while registered, in order,
\* packet for packet (batches of 3 and 5 packets: 8 packets).
C20_PacketsReceivedIsSumBetweenHandlers ==
    \A h \in Live :
        LET H    == hosts[h]
            done == Completed(H.ingested)
        IN  IF H.pc = "add_multi"
            THEN /\ H.ingested # << >>
                 /\ H.ingested[Len(H.ingested)] < 0
                 /\ done = SubSeq(H.ingested, 1, Len(H.ingested) - 1)
                 /\ H.packets_received =
                       PacketsOf(done) + PacketCount(-H.ingested[Len(H.ingested)])
                 /\ H.packets_received > PacketsOf(done)
            ELSE /\ done = H.ingested
                 /\ H.packets_received = PacketsOf(H.ingested)
                 /\ (H.queue = << >> /\ H.dropped = << >>)
                       => /\ H.ingested = H.offered
                          /\ H.packets_received = PacketsOf(H.offered)

\* C20 witness: two hosts were relayed the batches of 3 and of 5 packets; one
\* has drained its queue and counts 8 packets, all ingested; the other counts
\* 8 packets while its report has ingested 3 and add_multi of the second batch
\* is running
C20_Witness ==
    /\ PacketCount(1) = 3 /\ PacketCount(2) = 5
    /\ \E g, h \in Live :
          /\ hosts[g].offered = <<1, 2>> /\ hosts[h].offered = <<1, 2>>
          /\ hosts[g].dropped = << >> /\ hosts[h].dropped = << >>
          /\ hosts[g].queue = << >> /\ hosts[h].queue = << >>
          /\ hosts[g].pc = "loop"
          /\ hosts[g].ingested = <<1, 2>>
          /\ hosts[g].packets_received = 8
          /\ hosts[h].pc = "add_multi"
          /\ hosts[h].ingested = <<1, -2>>
          /\ hosts[h].packets_received = 8

====
